---- MODULE Spec2Model ----
(***************************************************************************)
(* Udagram infrastructure orchestration: the create flow (create.py) and   *)
(* the delete flow (delete.py).  One run of one of the two scripts is      *)
(* modelled step by step; the remote provisioning service and the object   *)
(* store are the environment, whose answers are chosen nondeterministically*)
(* at each call.                                                           *)
(***************************************************************************)
EXTENDS Integers, Sequences, FiniteSets

\* ---------------------------------------------------------------- bounds

\* Largest number of current objects in the bucket at the start of a run.
MaxObjects == 2

\* Largest number of stored object versions at the start of a run.
MaxVersions == 2

\* ------------------------------------------------------- configuration

NETWORK_STACK_NAME == "udagram-network"

APP_STACK_NAME == "udagram-app"

\* WaiterConfig MaxAttempts of both waits.
MaxAttempts == 120

StackNames == {NETWORK_STACK_NAME, APP_STACK_NAME}

\* ------------------------------------------------- the remote service

\* Statuses a stack may be found in when a run starts; "NONE": the service holds
\* no record under the name.
InitialStatus ==
    {"NONE", "CREATE_COMPLETE", "ROLLBACK_COMPLETE", "DELETE_COMPLETE"}

\* ClientError messages of describe_stacks.
NotExist == "does not exist"

AccessDenied == "AccessDenied"

\* The Outputs lists a stack description may carry.
OutputLists ==
    {<<>>, <<"LoadBalancerURL">>, <<"LoadBalancerURL", "S3BucketName">>}

None == "None"

OutputValue(key) == IF key = "S3BucketName" THEN "udagram-bucket" ELSE "http://udagram-lb"

\* ------------------------------------------------------------ variables

VARIABLES
    flow,                  \* "create" | "delete": which script runs
    cooperative,           \* the service accepts every request and completes in time,
                           \* and the operator does not interrupt the run
    pc,                    \* position of the run in main()
    exitCode,              \* -1 while running, else the process exit code
    status,                \* remote: status of each stack
    outputs,               \* remote: Outputs list of the application stack
    bucketExists,          \* remote: the application stack's bucket exists
    versioned,             \* remote: the bucket has versioning enabled
    objects,               \* remote: number of current objects in the bucket
    versions,              \* remote: number of stored versions and delete markers
    answer,                \* confirm_deletion(): the raw reply read by input()
    app_stack_exists,      \* delete.py main(): local
    network_stack_exists,  \* delete.py main(): local
    s3_bucket_name,        \* main(): local
    attempts,              \* polls made so far by the waiter now running
    log                    \* history: every helper call made, with its outcome

vars ==
    <<flow, cooperative, pc, exitCode, status, outputs, bucketExists, versioned,
      objects, versions, answer, app_stack_exists, network_stack_exists,
      s3_bucket_name, attempts, log>>

remote == <<status, outputs, bucketExists, versioned, objects, versions>>

locals == <<answer, app_stack_exists, network_stack_exists, s3_bucket_name>>

\* One entry of the history: the helper called, the stack it was called for,
\* its outcome, and what the service answered.
Ev(op, stack, res, seen) == [op |-> op, stack |-> stack, res |-> res, seen |-> seen]

Logged(e) == log' = Append(log, e)

\* sys.exit(code)
Exit(code) == pc' = "done" /\ exitCode' = code

Goto(p) == pc' = p /\ exitCode' = exitCode

\* Continue at p; "exit0" and "exit1" stand for sys.exit.
Continue(p) ==
    IF p = "exit0" THEN Exit(0)
    ELSE IF p = "exit1" THEN Exit(1)
    ELSE Goto(p)

\* ------------------------------------------------ answers of the service

\* describe_stacks(StackName=s): the stack's status, or a ClientError message.
DescribeStacks(s) ==
    (IF status[s] = "NONE" THEN {NotExist} ELSE {status[s]})
        \cup (IF cooperative THEN {} ELSE {AccessDenied})

IsError(resp) == resp \in {NotExist, AccessDenied}

\* The service deletes the application stack only once its bucket is empty.
Deletable(s) ==
    s = APP_STACK_NAME => (~bucketExists \/ (objects = 0 /\ versions = 0))

\* What a stack's status may have become by the time of the next poll.
Progress(s) ==
    IF status[s] = "CREATE_IN_PROGRESS"
    THEN {"CREATE_IN_PROGRESS", "CREATE_COMPLETE"}
             \cup (IF cooperative THEN {} ELSE {"ROLLBACK_COMPLETE"})
    ELSE IF status[s] = "DELETE_IN_PROGRESS"
    THEN {"DELETE_IN_PROGRESS"}
             \cup (IF Deletable(s) THEN {"DELETE_COMPLETE"} ELSE {"DELETE_FAILED"})
             \cup (IF cooperative THEN {} ELSE {"DELETE_FAILED"})
    ELSE {status[s]}

\* create_stack is accepted only for a name with no live record.
CreateAnswers(s) ==
    IF status[s] \in {"NONE", "DELETE_COMPLETE"}
    THEN (IF cooperative THEN {TRUE} ELSE BOOLEAN)
    ELSE {FALSE}

\* delete_stack on an absent or deleted stack changes nothing.
DeleteEffect(st) ==
    IF st \in {"NONE", "DELETE_COMPLETE"} THEN st ELSE "DELETE_IN_PROGRESS"

\* The bucket is a resource of the application stack: it comes and goes with it.
BucketFollows(s, st) ==
    IF s = APP_STACK_NAME /\ st # status[s] /\ st = "CREATE_COMPLETE"
    THEN bucketExists' = TRUE /\ objects' = 0 /\ versions' = 0
    ELSE IF s = APP_STACK_NAME /\ st # status[s] /\ st = "DELETE_COMPLETE"
    THEN bucketExists' = FALSE /\ objects' = 0 /\ versions' = 0
    ELSE UNCHANGED <<bucketExists, objects, versions>>

\* --------------------------------------------------------- pure helpers

\* Faulty variant: a failed or deleted record is taken for no stack at all.
CreateFlow_stack_exists_lenient(resp) ==
    IF resp \in {NotExist, "ROLLBACK_COMPLETE", "DELETE_COMPLETE"} THEN FALSE ELSE TRUE

\* create.py stack_exists: any description at all means the stack exists.
CreateFlow_stack_exists(resp) ==
    IF resp = NotExist THEN FALSE ELSE TRUE

\* Faulty variant: the status is not looked at, as in create.py.
DeleteFlow_stack_exists_any(resp) ==
    IF resp = NotExist THEN FALSE ELSE TRUE

\* delete.py stack_exists: a DELETE_COMPLETE record counts as absent.
DeleteFlow_stack_exists(resp) ==
    IF resp = NotExist THEN FALSE
    ELSE IF resp = "DELETE_COMPLETE" THEN FALSE
    ELSE TRUE

\* stack_exists re-raises a ClientError that is not "does not exist".
Raises(resp) == IsError(resp) /\ resp # NotExist

RECURSIVE ScanOutputs(_, _)
ScanOutputs(outs, key) ==
    IF outs = <<>> THEN None
    ELSE IF Head(outs) = key THEN OutputValue(key)
    ELSE ScanOutputs(Tail(outs), key)

\* get_stack_output: a ClientError gives None, else the first matching output.
get_stack_output(resp, outs, key) ==
    IF IsError(resp) THEN None ELSE ScanOutputs(outs, key)

Whitespace == {" ", "\t"}

LowerChar(c) ==
    CASE c = "Y" -> "y"
      [] c = "E" -> "e"
      [] c = "S" -> "s"
      [] c = "N" -> "n"
      [] c = "O" -> "o"
      [] OTHER -> c

\* str.lower()
lower(s) == [i \in 1..Len(s) |-> LowerChar(s[i])]

RECURSIVE lstrip(_)
lstrip(s) ==
    IF s # <<>> /\ Head(s) \in Whitespace THEN lstrip(Tail(s)) ELSE s

RECURSIVE rstrip(_)
rstrip(s) ==
    IF s # <<>> /\ s[Len(s)] \in Whitespace THEN rstrip(SubSeq(s, 1, Len(s) - 1)) ELSE s

\* str.strip()
strip(s) == rstrip(lstrip(s))

\* Faulty variant: "response in 'yes'", a substring test, for "response in ['yes', 'y']".
confirm_deletion_substring(reply) ==
    strip(lower(reply)) \in {<<>>, <<"y">>, <<"e">>, <<"s">>, <<"y", "e">>, <<"e", "s">>,
                             <<"y", "e", "s">>}

\* confirm_deletion: the reply, lowered and stripped, is "yes" or "y".
confirm_deletion(reply) ==
    strip(lower(reply)) \in {<<"y", "e", "s">>, <<"y">>}

\* Replies the operator may type.
Replies ==
    {<<"y">>, <<"Y">>, <<"y", "e", "s">>, <<" ", "Y", "e", "S", " ">>, <<"\t", "y">>,
     <<"n", "o">>, <<"N">>, <<>>, <<" ">>, <<"e", "s">>, <<"y", "e">>,
     <<"y", " ", "e", "s">>, <<"y", "e", "s", "s">>}

\* The waiter's acceptors: what one poll's answer means.
WaiterState(waiter, resp) ==
    IF waiter = "stack_create_complete"
    THEN (IF resp = "CREATE_COMPLETE" THEN "success"
          ELSE IF resp \in {"CREATE_IN_PROGRESS", "DELETE_IN_PROGRESS"} THEN "retry"
          ELSE "failure")
    ELSE (IF resp \in {"DELETE_COMPLETE", NotExist} THEN "success"
          ELSE IF resp \in {"DELETE_FAILED", AccessDenied} THEN "failure"
          ELSE "retry")

\* waiter.wait after its n-th poll: done, WaiterError, or sleep and poll again.
WaiterOutcome(waiter, resp, n) ==
    IF WaiterState(waiter, resp) = "success" THEN "success"
    ELSE IF WaiterState(waiter, resp) = "failure" THEN "failure"
    ELSE IF n >= MaxAttempts THEN "timeout"
    ELSE "retry"

\* Faulty variant: a failing describe_stack_events turns the failure into a success.
wait_for_stack_creation_events(outcome, eventsFetched) ==
    IF outcome = "success" THEN TRUE ELSE ~eventsFetched

\* wait_for_stack_creation: True unless WaiterError, whatever the event dump does.
wait_for_stack_creation(outcome, eventsFetched) ==
    IF outcome = "success" THEN TRUE ELSE FALSE

\* wait_for_stack_deletion: True unless WaiterError, whatever the event dump does.
wait_for_stack_deletion(outcome, eventsFetched) ==
    IF outcome = "success" THEN TRUE ELSE FALSE

Str(b) == IF b THEN "True" ELSE "False"

\* ------------------------------------------------------------ initial state

\* A run starts before main.  The stacks are in any settled status; the bucket
\* exists only with a created application stack, and a versioned bucket stores
\* at least one version per current object.  A cooperative environment is
\* considered for the delete flow with both stacks and the bucket present.

Init ==
    /\ flow \in {"create", "delete"}
    /\ cooperative \in BOOLEAN
    /\ pc = IF flow = "create" THEN "c_check_network" ELSE "d_prompt"
    /\ exitCode = -1
    /\ status \in [StackNames -> InitialStatus]
    /\ outputs \in OutputLists
    /\ bucketExists \in BOOLEAN
    /\ versioned \in BOOLEAN
    /\ objects \in 0..MaxObjects
    /\ versions \in 0..MaxVersions
    /\ bucketExists => status[APP_STACK_NAME] = "CREATE_COMPLETE"
    /\ cooperative =>
          /\ flow = "delete"
          /\ status = [s \in StackNames |-> "CREATE_COMPLETE"]
          /\ bucketExists
    /\ ~bucketExists => objects = 0 /\ versions = 0 /\ ~versioned
    /\ ~versioned => versions = 0
    /\ versioned => objects <= versions
    /\ answer = <<>>
    /\ app_stack_exists = FALSE
    /\ network_stack_exists = FALSE
    /\ s3_bucket_name = None
    /\ attempts = 0
    /\ log = <<>>

\* ------------------------------------------------- steps shared by the flows

\* read_template and read_parameters for one stack: a missing file is sys.exit(1).
ReadFiles(s, nextpc) ==
    \E template \in BOOLEAN, parameters \in BOOLEAN :
        /\ cooperative => (template /\ parameters)
        /\ Logged(Ev("read_files", s,
                     IF ~template THEN "template missing"
                     ELSE IF ~parameters THEN "parameters missing" ELSE "ok", "-"))
        /\ Continue(IF template /\ parameters THEN nextpc ELSE "exit1")
        /\ UNCHANGED <<flow, cooperative, remote, locals, attempts>>

\* create_stack, and main's exit when it returns False.
CreateStack(s, okpc, failpc) ==
    \E accepted \in CreateAnswers(s) :
        /\ status' = IF accepted THEN [status EXCEPT ![s] = "CREATE_IN_PROGRESS"] ELSE status
        /\ Logged(Ev("create_stack", s, Str(accepted), "-"))
        /\ attempts' = 0
        /\ Continue(IF accepted THEN okpc ELSE failpc)
        /\ UNCHANGED <<flow, cooperative, outputs, bucketExists, versioned, objects,
                       versions, locals>>

\* delete_stack, and main's exit when it returns False.
DeleteStack(s, okpc, failpc) ==
    \E accepted \in (IF cooperative THEN {TRUE} ELSE BOOLEAN) :
        /\ status' = IF accepted THEN [status EXCEPT ![s] = DeleteEffect(status[s])] ELSE status
        /\ Logged(Ev("delete_stack", s, Str(accepted), "-"))
        /\ attempts' = 0
        /\ Continue(IF accepted THEN okpc ELSE failpc)
        /\ UNCHANGED <<flow, cooperative, outputs, bucketExists, versioned, objects,
                       versions, locals>>

WaitReturn(waiter, outcome, eventsFetched) ==
    IF waiter = "stack_create_complete"
    THEN wait_for_stack_creation(outcome, eventsFetched)
    ELSE wait_for_stack_deletion(outcome, eventsFetched)

\* One poll of waiter.wait inside wait_for_stack_creation / wait_for_stack_deletion,
\* and, when the waiter ends, the helper's return and main's exit on False.
WaitPoll(s, waiter, okpc, failpc) ==
    \E st \in Progress(s), eventsFetched \in BOOLEAN :
        \E resp \in (IF st = "NONE" THEN {NotExist} ELSE {st})
                        \cup (IF cooperative THEN {} ELSE {AccessDenied}) :
            LET n == attempts + 1
                outcome == WaiterOutcome(waiter, resp, n)
            IN  /\ cooperative /\ n >= MaxAttempts => WaiterState(waiter, resp) # "retry"
                /\ status' = [status EXCEPT ![s] = st]
                /\ BucketFollows(s, st)
                /\ IF outcome = "retry"
                   THEN /\ attempts' = n
                        /\ UNCHANGED <<pc, exitCode, log>>
                   ELSE /\ attempts' = 0
                        /\ Logged(Ev("wait", s,
                                     Str(WaitReturn(waiter, outcome, eventsFetched)), resp))
                        /\ Continue(IF WaitReturn(waiter, outcome, eventsFetched)
                                    THEN okpc ELSE failpc)
                /\ UNCHANGED <<flow, cooperative, outputs, versioned, locals>>

\* s3_bucket_name = get_stack_output(APP_STACK_NAME, 'S3BucketName'), and the branch on it.
GetBucketName(namedpc, nonepc) ==
    \E resp \in DescribeStacks(APP_STACK_NAME) :
        LET name == get_stack_output(resp, outputs, "S3BucketName")
        IN  /\ s3_bucket_name' = name
            /\ Logged(Ev("get_stack_output", APP_STACK_NAME, name, resp))
            /\ Goto(IF name # None THEN namedpc ELSE nonepc)
            /\ UNCHANGED <<flow, cooperative, remote, answer, app_stack_exists,
                           network_stack_exists, attempts>>

\* KeyboardInterrupt, caught at the top level: exit 1.
Interrupt ==
    /\ pc # "done"
    /\ ~cooperative
    /\ Logged(Ev("KeyboardInterrupt", "-", "-", "-"))
    /\ Exit(1)
    /\ UNCHANGED <<flow, cooperative, remote, locals, attempts>>

\* ------------------------------------------------------ create.py main()

\* if stack_exists(NETWORK_STACK_NAME): sys.exit(1)
C_CheckNetwork ==
    /\ pc = "c_check_network"
    /\ \E resp \in DescribeStacks(NETWORK_STACK_NAME) :
        /\ Logged(Ev("stack_exists", NETWORK_STACK_NAME,
                     IF Raises(resp) THEN "raise" ELSE Str(CreateFlow_stack_exists(resp)),
                     resp))
        /\ Continue(IF Raises(resp) THEN "exit1"
                    ELSE IF CreateFlow_stack_exists(resp) THEN "exit1"
                    ELSE "c_check_app")
    /\ UNCHANGED <<flow, cooperative, remote, locals, attempts>>

\* if stack_exists(APP_STACK_NAME): sys.exit(1)
C_CheckApp ==
    /\ pc = "c_check_app"
    /\ \E resp \in DescribeStacks(APP_STACK_NAME) :
        /\ Logged(Ev("stack_exists", APP_STACK_NAME,
                     IF Raises(resp) THEN "raise" ELSE Str(CreateFlow_stack_exists(resp)),
                     resp))
        /\ Continue(IF Raises(resp) THEN "exit1"
                    ELSE IF CreateFlow_stack_exists(resp) THEN "exit1"
                    ELSE "c_read_network")
    /\ UNCHANGED <<flow, cooperative, remote, locals, attempts>>

C_ReadNetwork ==
    /\ pc = "c_read_network"
    /\ ReadFiles(NETWORK_STACK_NAME, "c_create_network")

C_CreateNetwork ==
    /\ pc = "c_create_network"
    /\ CreateStack(NETWORK_STACK_NAME, "c_wait_network", "exit1")

\* Faulty variant: the wait's return value is not checked.
C_WaitNetwork_unchecked ==
    /\ pc = "c_wait_network"
    /\ WaitPoll(NETWORK_STACK_NAME, "stack_create_complete", "c_read_app", "c_read_app")

\* display_stack_outputs, which follows a successful wait, only prints.
C_WaitNetwork ==
    /\ pc = "c_wait_network"
    /\ WaitPoll(NETWORK_STACK_NAME, "stack_create_complete", "c_read_app", "exit1")

C_ReadApp ==
    /\ pc = "c_read_app"
    /\ ReadFiles(APP_STACK_NAME, "c_create_app")

C_CreateApp ==
    /\ pc = "c_create_app"
    /\ CreateStack(APP_STACK_NAME, "c_wait_app", "exit1")

C_WaitApp ==
    /\ pc = "c_wait_app"
    /\ WaitPoll(APP_STACK_NAME, "stack_create_complete", "c_get_bucket", "exit1")

C_GetBucketName ==
    /\ pc = "c_get_bucket"
    /\ GetBucketName("c_upload", "c_summary")

\* Faulty variant: a failed upload ends the run with exit 1.
C_Upload_fatal ==
    /\ pc = "c_upload"
    /\ \E result \in {"ok", "FileNotFoundError", "ClientError"} :
        /\ cooperative => result = "ok"
        /\ result = "ok" => bucketExists
        /\ objects' = IF result = "ok" /\ objects = 0 THEN 1 ELSE objects
        /\ versions' = IF result = "ok" /\ versioned THEN versions + 1 ELSE versions
        /\ Logged(Ev("upload_to_s3", APP_STACK_NAME, Str(result = "ok"), result))
        /\ Continue(IF result = "ok" THEN "c_summary" ELSE "exit1")
    /\ UNCHANGED <<flow, cooperative, status, outputs, bucketExists, versioned, locals,
                   attempts>>

\* upload_to_s3: FileNotFoundError and ClientError both return False; main goes on.
C_Upload ==
    /\ pc = "c_upload"
    /\ \E result \in {"ok", "FileNotFoundError", "ClientError"} :
        /\ cooperative => result = "ok"
        /\ result = "ok" => bucketExists
        /\ objects' = IF result = "ok" /\ objects = 0 THEN 1 ELSE objects
        /\ versions' = IF result = "ok" /\ versioned THEN versions + 1 ELSE versions
        /\ Logged(Ev("upload_to_s3", APP_STACK_NAME, Str(result = "ok"), result))
        /\ Goto("c_summary")
    /\ UNCHANGED <<flow, cooperative, status, outputs, bucketExists, versioned, locals,
                   attempts>>

\* The final summary; main returns and the process exits 0.
C_Summary ==
    /\ pc = "c_summary"
    /\ \E resp \in DescribeStacks(APP_STACK_NAME) :
        Logged(Ev("summary", APP_STACK_NAME,
                  get_stack_output(resp, outputs, "LoadBalancerURL"), resp))
    /\ Exit(0)
    /\ UNCHANGED <<flow, cooperative, remote, locals, attempts>>

\* ------------------------------------------------------ delete.py main()

\* confirm_deletion up to input(): the prompt is shown and the reply read.
D_Prompt ==
    /\ pc = "d_prompt"
    /\ \E reply \in Replies : answer' = reply
    /\ Goto("d_confirm")
    /\ UNCHANGED <<flow, cooperative, remote, app_stack_exists, network_stack_exists,
                   s3_bucket_name, attempts, log>>

\* confirm_deletion returns and its local is gone; if not confirmed: sys.exit(0)
D_Confirm ==
    /\ pc = "d_confirm"
    /\ answer' = <<>>
    /\ Logged(Ev("confirm_deletion", "-", Str(confirm_deletion(answer)), "-"))
    /\ Continue(IF confirm_deletion(answer) THEN "d_check_app" ELSE "exit0")
    /\ UNCHANGED <<flow, cooperative, remote, app_stack_exists, network_stack_exists,
                   s3_bucket_name, attempts>>

\* app_stack_exists = stack_exists(APP_STACK_NAME)
D_CheckApp ==
    /\ pc = "d_check_app"
    /\ \E resp \in DescribeStacks(APP_STACK_NAME) :
        /\ app_stack_exists' = (~Raises(resp) /\ DeleteFlow_stack_exists(resp))
        /\ Logged(Ev("stack_exists", APP_STACK_NAME,
                     IF Raises(resp) THEN "raise" ELSE Str(DeleteFlow_stack_exists(resp)),
                     resp))
        /\ Continue(IF Raises(resp) THEN "exit1" ELSE "d_check_network")
    /\ UNCHANGED <<flow, cooperative, remote, answer, network_stack_exists,
                   s3_bucket_name, attempts>>

\* Where main goes once both existence checks are in: nothing to delete is exit 0.
AfterChecks(appExists, networkExists) ==
    IF ~appExists /\ ~networkExists THEN "exit0"
    ELSE IF appExists THEN "d_get_bucket"
    ELSE "d_delete_network"

\* network_stack_exists = stack_exists(NETWORK_STACK_NAME), and the nothing-to-delete exit.
D_CheckNetwork ==
    /\ pc = "d_check_network"
    /\ \E resp \in DescribeStacks(NETWORK_STACK_NAME) :
        /\ network_stack_exists' = (~Raises(resp) /\ DeleteFlow_stack_exists(resp))
        /\ Logged(Ev("stack_exists", NETWORK_STACK_NAME,
                     IF Raises(resp) THEN "raise" ELSE Str(DeleteFlow_stack_exists(resp)),
                     resp))
        /\ Continue(IF Raises(resp) THEN "exit1"
                    ELSE AfterChecks(app_stack_exists, DeleteFlow_stack_exists(resp)))
    /\ UNCHANGED <<flow, cooperative, remote, answer, app_stack_exists, s3_bucket_name,
                   attempts>>

\* Step 1: without a bucket name main warns and goes on to the stack deletion.
D_GetBucketName ==
    /\ pc = "d_get_bucket"
    /\ GetBucketName("d_empty_objects", "d_delete_app")

\* Answers of the object store to a bulk delete.
S3Answers ==
    (IF bucketExists THEN {"ok"} ELSE {"NoSuchBucket"})
        \cup (IF cooperative THEN {} ELSE {"ClientError"})

\* Faulty variant: every ClientError is taken for an already deleted bucket.
empty_s3_bucket_swallow(result) == TRUE

\* empty_s3_bucket's return: NoSuchBucket counts as emptied, another ClientError does not.
empty_s3_bucket(result) ==
    IF result = "ok" THEN TRUE
    ELSE IF result = "NoSuchBucket" THEN TRUE
    ELSE FALSE

\* Faulty variant: the object versions are never deleted.
D_EmptyObjects_only ==
    /\ pc = "d_empty_objects"
    /\ \E result \in S3Answers :
        /\ objects' = IF result = "ok" THEN 0 ELSE objects
        /\ versions' = IF result = "ok" /\ versioned THEN versions + objects ELSE versions
        /\ Logged(Ev("objects.delete", APP_STACK_NAME, result, "-"))
        /\ Continue(IF empty_s3_bucket(result) THEN "d_delete_app" ELSE "exit1")
    /\ UNCHANGED <<flow, cooperative, status, outputs, bucketExists, versioned, locals,
                   attempts>>

\* empty_s3_bucket, first half: bucket.objects.all().delete()
D_EmptyObjects ==
    /\ pc = "d_empty_objects"
    /\ \E result \in S3Answers :
        /\ objects' = IF result = "ok" THEN 0 ELSE objects
        /\ versions' = IF result = "ok" /\ versioned THEN versions + objects ELSE versions
        /\ Logged(Ev("objects.delete", APP_STACK_NAME, result, "-"))
        /\ Continue(IF result = "ok" THEN "d_empty_versions"
                    ELSE IF empty_s3_bucket(result) THEN "d_delete_app"
                    ELSE "exit1")
    /\ UNCHANGED <<flow, cooperative, status, outputs, bucketExists, versioned, locals,
                   attempts>>

\* empty_s3_bucket, second half: bucket.object_versions.all().delete()
D_EmptyVersions ==
    /\ pc = "d_empty_versions"
    /\ \E result \in S3Answers :
        /\ objects' = IF result = "ok" THEN 0 ELSE objects
        /\ versions' = IF result = "ok" THEN 0 ELSE versions
        /\ Logged(Ev("object_versions.delete", APP_STACK_NAME, result, "-"))
        /\ Continue(IF empty_s3_bucket(result) THEN "d_delete_app" ELSE "exit1")
    /\ UNCHANGED <<flow, cooperative, status, outputs, bucketExists, versioned, locals,
                   attempts>>

\* Step 2: delete the application stack.
D_DeleteApp ==
    /\ pc = "d_delete_app"
    /\ DeleteStack(APP_STACK_NAME, "d_wait_app", "exit1")

\* Faulty variant: step 3 is never entered.
AfterAppDeleted_skip(networkExists) == "d_summary"

\* Step 3 is entered only for a network stack found to exist.
AfterAppDeleted(networkExists) ==
    IF networkExists THEN "d_delete_network" ELSE "d_summary"

\* Faulty variant: the wait's return value is not checked.
D_WaitApp_unchecked ==
    /\ pc = "d_wait_app"
    /\ WaitPoll(APP_STACK_NAME, "stack_delete_complete",
                AfterAppDeleted(network_stack_exists), AfterAppDeleted(network_stack_exists))

D_WaitApp ==
    /\ pc = "d_wait_app"
    /\ WaitPoll(APP_STACK_NAME, "stack_delete_complete",
                AfterAppDeleted(network_stack_exists), "exit1")

D_DeleteNetwork ==
    /\ pc = "d_delete_network"
    /\ DeleteStack(NETWORK_STACK_NAME, "d_wait_network", "exit1")

D_WaitNetwork ==
    /\ pc = "d_wait_network"
    /\ WaitPoll(NETWORK_STACK_NAME, "stack_delete_complete", "d_summary", "exit1")

\* The final summary; main returns and the process exits 0.
D_Summary ==
    /\ pc = "d_summary"
    /\ Exit(0)
    /\ UNCHANGED <<flow, cooperative, remote, locals, attempts, log>>

\* ------------------------------------------------------------ specification

Next ==
    \/ C_CheckNetwork
    \/ C_CheckApp
    \/ C_ReadNetwork
    \/ C_CreateNetwork
    \/ C_WaitNetwork
    \/ C_ReadApp
    \/ C_CreateApp
    \/ C_WaitApp
    \/ C_GetBucketName
    \/ C_Upload
    \/ C_Summary
    \/ D_Prompt
    \/ D_Confirm
    \/ D_CheckApp
    \/ D_CheckNetwork
    \/ D_GetBucketName
    \/ D_EmptyObjects
    \/ D_EmptyVersions
    \/ D_DeleteApp
    \/ D_WaitApp
    \/ D_DeleteNetwork
    \/ D_WaitNetwork
    \/ D_Summary
    \/ Interrupt

Spec == Init /\ [][Next]_vars

\* The script is a sequential program: while it has a step to take it takes one.
LiveSpec == Spec /\ WF_vars(Next)

\* ------------------------------------------------------- reading the history

Idx == 1..Len(log)

\* Positions of the calls of one helper for one stack.
Calls(op, stack) == {i \in Idx : log[i].op = op /\ log[i].stack = stack}

Issued(op, stack) == Calls(op, stack) # {}

\* Positions of the calls of one helper for one stack that had the given outcome.
CallsWith(op, stack, res) == {i \in Calls(op, stack) : log[i].res = res}

Interrupted == log # <<>> /\ log[Len(log)].op = "KeyboardInterrupt"

\* The existence check met a record of the stack, whatever its status.
FoundRecord(stack) ==
    \E i \in Calls("stack_exists", stack) : log[i].seen \notin {NotExist, AccessDenied}

\* The existence check met no stack: none on record, or one fully deleted.
FoundAbsent(stack) ==
    \E i \in Calls("stack_exists", stack) : log[i].seen \in {NotExist, "DELETE_COMPLETE"}

\* The existence check met a stack that is there to delete.
FoundPresent(stack) ==
    \E i \in Calls("stack_exists", stack) :
        log[i].seen \notin {NotExist, AccessDenied, "DELETE_COMPLETE"}

MutatingOps ==
    {"create_stack", "delete_stack", "objects.delete", "object_versions.delete",
     "upload_to_s3"}

RemoteOps ==
    MutatingOps \cup {"stack_exists", "wait", "get_stack_output", "summary"}

\* The terminal state a wait is for was the last thing it saw.
AwaitedSeen(e) ==
    IF flow = "create" THEN e.seen = "CREATE_COMPLETE"
    ELSE e.seen \in {"DELETE_COMPLETE", NotExist}

WaitPcs == {"c_wait_network", "c_wait_app", "d_wait_app", "d_wait_network"}

\* ------------------------------------------------------------------ claims

\* C1: in the create flow, once an existence check has met a record of either
\* stack, in any status, the run has ended with exit code 1 and no create_stack
\* request has been made for either stack.
C1_ExistingStackBlocksCreate ==
    (flow = "create" /\ \E s \in StackNames : FoundRecord(s))
        => /\ pc = "done"
           /\ exitCode = 1
           /\ \A s \in StackNames : ~Issued("create_stack", s)

\* C1 witness: the network stack was absent, a failed application stack was met,
\* and the run is over.
C1_Witness ==
    /\ flow = "create"
    /\ pc = "done"
    /\ \E i \in Calls("stack_exists", NETWORK_STACK_NAME) : log[i].seen = NotExist
    /\ \E i \in Calls("stack_exists", APP_STACK_NAME) : log[i].seen = "ROLLBACK_COMPLETE"

\* C2: in the create flow the application stack's create request comes only
\* after the network stack's create was accepted and its wait returned True, the
\* upload comes only after the application stack's wait returned True, and the
\* two stacks are never being created at the same time.
C2_CreateOrder ==
    flow = "create"
        => /\ \A i \in Calls("create_stack", APP_STACK_NAME) :
                \E j \in CallsWith("create_stack", NETWORK_STACK_NAME, "True") :
                    \E k \in CallsWith("wait", NETWORK_STACK_NAME, "True") :
                        j < k /\ k < i
           /\ \A i \in Calls("upload_to_s3", APP_STACK_NAME) :
                \E j \in CallsWith("create_stack", APP_STACK_NAME, "True") :
                    \E k \in CallsWith("wait", APP_STACK_NAME, "True") :
                        j < k /\ k < i
           /\ ~(\A s \in StackNames : status[s] = "CREATE_IN_PROGRESS")

\* C2 witness: a create run that went all the way to the upload.
C2_Witness ==
    /\ flow = "create"
    /\ pc = "done"
    /\ CallsWith("upload_to_s3", APP_STACK_NAME, "True") # {}

\* C3: in a delete run that found both stacks, the network stack's delete
\* request comes only after the application stack's delete was accepted and its
\* wait returned True, and by then the application stack is gone.
C3_DeleteOrder ==
    (flow = "delete" /\ \A s \in StackNames : FoundPresent(s))
        => \A i \in Calls("delete_stack", NETWORK_STACK_NAME) :
               /\ \E j \in CallsWith("delete_stack", APP_STACK_NAME, "True") :
                    \E k \in CallsWith("wait", APP_STACK_NAME, "True") :
                        j < k /\ k < i
               /\ status[APP_STACK_NAME] \in {"DELETE_COMPLETE", "NONE"}

\* C3 witness: both stacks were found and the network stack's delete was accepted.
C3_Witness ==
    /\ flow = "delete"
    /\ \A s \in StackNames : FoundPresent(s)
    /\ CallsWith("delete_stack", NETWORK_STACK_NAME, "True") # {}

\* empty_s3_bucket returned True before position i of the history.
EmptiedBefore(i) ==
    \E j \in Idx :
        /\ j < i
        /\ \/ log[j].op = "objects.delete" /\ log[j].res = "NoSuchBucket"
           \/ log[j].op = "object_versions.delete" /\ log[j].res \in {"ok", "NoSuchBucket"}

\* C4 as stated: in the delete flow every delete request for the application
\* stack comes after a successful emptying of its bucket in the same run; the
\* delete is never requested while the bucket has not been emptied.  (A bucket
\* that holds nothing is let pass here, so that what refutes this is a delete
\* requested with objects still in the bucket.)
C4_Original ==
    flow = "delete"
        => \A i \in Calls("delete_stack", APP_STACK_NAME) :
               EmptiedBefore(i) \/ (objects = 0 /\ versions = 0)

\* C4 amended: in the delete flow a delete request for the application stack
\* made after the bucket name was resolved comes after empty_s3_bucket returned
\* True, and the bucket then holds no object and no version; without a bucket
\* name the delete is requested with nothing emptied.
C4_DeleteAfterEmptyWhenNamed ==
    flow = "delete"
        => /\ \A i \in Calls("delete_stack", APP_STACK_NAME) :
                /\ Calls("get_stack_output", APP_STACK_NAME) # {}
                /\ s3_bucket_name # None => EmptiedBefore(i)
                /\ s3_bucket_name = None
                     => ~\E j \in Idx : log[j].op \in {"objects.delete", "object_versions.delete"}
           /\ (pc = "d_wait_app" /\ s3_bucket_name # None)
                => (objects = 0 /\ versions = 0)

\* C4 witness: the name was resolved, a bucket holding objects and versions was
\* emptied, and the application stack's delete has been requested.
C4_Witness ==
    /\ flow = "delete"
    /\ s3_bucket_name # None
    /\ CallsWith("objects.delete", APP_STACK_NAME, "ok") # {}
    /\ CallsWith("object_versions.delete", APP_STACK_NAME, "ok") # {}
    /\ CallsWith("delete_stack", APP_STACK_NAME, "True") # {}
    /\ versioned

\* Through the prompt and the two existence checks nothing remote changes.
ChecksChangeNothing ==
    pc \in {"d_prompt", "d_confirm", "d_check_app", "d_check_network"}
        => UNCHANGED remote

\* C5: a delete run whose two existence checks both met no stack (none on
\* record, or a DELETE_COMPLETE one) has ended with exit code 0 having made no
\* call but the two checks, and has changed nothing remote.
C5_NothingToDelete ==
    /\ []((flow = "delete" /\ \A s \in StackNames : FoundAbsent(s))
            => /\ pc = "done"
               /\ exitCode = 0
               /\ Len(log) = 3
               /\ \A i \in Idx : log[i].op \notin MutatingOps
               /\ attempts = 0)
    /\ [][ChecksChangeNothing]_vars

\* C5 witness: a run that met a DELETE_COMPLETE application stack and no network
\* stack, and ended.
C5_Witness ==
    /\ flow = "delete"
    /\ pc = "done"
    /\ \E i \in Calls("stack_exists", APP_STACK_NAME) : log[i].seen = "DELETE_COMPLETE"
    /\ \E i \in Calls("stack_exists", NETWORK_STACK_NAME) : log[i].seen = NotExist

\* The replies that are "yes" or "y" once lowered and stripped.
AffirmativeReplies ==
    {<<"y">>, <<"Y">>, <<"y", "e", "s">>, <<" ", "Y", "e", "S", " ">>, <<"\t", "y">>}

\* A reply other than yes ends the run with exit code 0 and nothing called
\* (or the operator interrupts first).
DeclineEndsRun ==
    (pc = "d_confirm" /\ answer \notin AffirmativeReplies)
        => /\ pc' = "done"
           /\ UNCHANGED <<remote, attempts>>
           /\ \/ exitCode' = 0 /\ Len(log') = 1 /\ log'[1].op \notin RemoteOps
              \/ exitCode' = 1 /\ log'[Len(log')].op = "KeyboardInterrupt"

\* C6: in the delete flow no remote call is made before the reply to the prompt
\* has been read and judged, and a reply other than "yes" or "y" (case and
\* surrounding blanks aside) ends the run with exit code 0 and no remote call.
C6_ConfirmFirst ==
    /\ [](pc \in {"d_prompt", "d_confirm"}
            => /\ attempts = 0
               /\ \A i \in Idx : log[i].op \notin RemoteOps)
    /\ []((flow = "delete" /\ CallsWith("confirm_deletion", "-", "False") # {})
            => (pc = "done" /\ exitCode = 0 /\ Len(log) = 1 /\ attempts = 0))
    /\ [][DeclineEndsRun]_vars

\* C6 witness: the operator declined and the run is over.
C6_Witness ==
    /\ flow = "delete"
    /\ pc = "done"
    /\ exitCode = 0
    /\ CallsWith("confirm_deletion", "-", "False") # {}

\* C7: a wait never polls more than MaxAttempts times, returns True exactly when
\* the awaited terminal state was the last thing seen (so never on a failure or
\* on running out of attempts, whatever the event dump does), and always ends.
C7_WaitBounded ==
    /\ [](/\ attempts < MaxAttempts
          /\ \A i \in Idx :
                log[i].op = "wait" => (log[i].res = "True" <=> AwaitedSeen(log[i])))
    /\ (pc \in WaitPcs) ~> (pc \notin WaitPcs)

\* C7 witness: a creation wait ran out of attempts and returned False.
C7_Witness ==
    /\ flow = "create"
    /\ \E i \in Idx :
        log[i].op = "wait" /\ log[i].res = "False" /\ log[i].seen = "CREATE_IN_PROGRESS"

\* A fatal condition: what the history entry records must end the run.
Fatal(e) ==
    \/ e.op = "read_files" /\ e.res # "ok"
    \/ e.op = "stack_exists" /\ e.seen = AccessDenied
    \/ e.op = "stack_exists" /\ flow = "create" /\ e.seen # NotExist
    \/ e.op \in {"create_stack", "delete_stack"} /\ e.res = "False"
    \/ e.op = "wait" /\ ~AwaitedSeen(e)
    \/ e.op \in {"objects.delete", "object_versions.delete"} /\ e.res = "ClientError"
    \/ e.op = "KeyboardInterrupt"

\* C8: in both flows a fatal condition is the last thing the run does: the run
\* has ended with exit code 1 and no request follows it.
C8_FatalEndsRun ==
    \A i \in Idx :
        Fatal(log[i]) => (i = Len(log) /\ pc = "done" /\ exitCode = 1)

\* C8 witness: emptying the bucket failed half way and the run is over.
C8_Witness ==
    /\ pc = "done"
    /\ CallsWith("object_versions.delete", APP_STACK_NAME, "ClientError") # {}

\* C9: a create run that got both stacks created and was not interrupted makes
\* at most one upload attempt, none without a bucket name, and whatever the
\* upload did it reaches the summary and ends with exit code 0, both stacks
\* still CREATE_COMPLETE.
C9_UploadNotFatal ==
    (/\ flow = "create"
     /\ \A s \in StackNames : CallsWith("wait", s, "True") # {}
     /\ ~Interrupted)
        => /\ Cardinality(Calls("upload_to_s3", APP_STACK_NAME)) <= 1
           /\ CallsWith("get_stack_output", APP_STACK_NAME, None) # {}
                => Calls("upload_to_s3", APP_STACK_NAME) = {}
           /\ pc \in {"c_get_bucket", "c_upload", "c_summary", "done"}
           /\ pc = "done" => (exitCode = 0 /\ log[Len(log)].op = "summary")
           /\ \A s \in StackNames : status[s] = "CREATE_COMPLETE"

\* C9 witness: the upload was rejected and the run ended after the summary.
C9_Witness ==
    /\ flow = "create"
    /\ pc = "done"
    /\ \E i \in Calls("upload_to_s3", APP_STACK_NAME) : log[i].seen = "ClientError"
    /\ log[Len(log)].op = "summary"

\* The full delete scenario, right after an affirmative reply.
FullDeleteStart ==
    /\ flow = "delete"
    /\ cooperative
    /\ pc = "d_check_app"
    /\ \A s \in StackNames : status[s] = "CREATE_COMPLETE"
    /\ ScanOutputs(outputs, "S3BucketName") # None
    /\ bucketExists
    /\ versioned
    /\ objects > 0

\* What the full delete scenario does, in order.
FullDeleteCalls ==
    << <<"confirm_deletion", "-", "True">>,
       <<"stack_exists", APP_STACK_NAME, "True">>,
       <<"stack_exists", NETWORK_STACK_NAME, "True">>,
       <<"get_stack_output", APP_STACK_NAME, "udagram-bucket">>,
       <<"objects.delete", APP_STACK_NAME, "ok">>,
       <<"object_versions.delete", APP_STACK_NAME, "ok">>,
       <<"delete_stack", APP_STACK_NAME, "True">>,
       <<"wait", APP_STACK_NAME, "True">>,
       <<"delete_stack", NETWORK_STACK_NAME, "True">>,
       <<"wait", NETWORK_STACK_NAME, "True">> >>

FullDeleteDone ==
    /\ pc = "done"
    /\ exitCode = 0
    /\ [i \in Idx |-> <<log[i].op, log[i].stack, log[i].res>>] = FullDeleteCalls
    /\ \A s \in StackNames : status[s] = "DELETE_COMPLETE"
    /\ objects = 0
    /\ versions = 0

\* C10: with both stacks present, the bucket name exported, a versioned bucket
\* holding objects, an affirmative reply and a service that accepts every
\* request and completes every deletion in time, the run goes on to empty the
\* bucket (objects, then versions), delete and await the application stack,
\* delete and await the network stack, each delete requested once, and ends
\* with exit code 0.
C10_FullDelete ==
    FullDeleteStart ~> FullDeleteDone

\* C10 witness: the scenario has run to its end.
C10_Witness ==
    cooperative /\ versioned /\ FullDeleteDone

====
